---- MODULE Spec2Model ----
(***************************************************************************)
(* Guest-level workload discovery and dependency topology                  *)
(* (src/src/digital_twin_migrate/guest_discovery.py).                      *)
(*                                                                         *)
(*   Spec      one discover_all run: the bounded worker pool, the          *)
(*             credential trial of discover_vm, the deep database probe,   *)
(*             the shared progress record, the barrier, the topology       *)
(*             build and the totals.                                       *)
(*   SpecDeps  _build_dependencies as a pure function of a bounded list    *)
(*             of VMWorkloads records.                                     *)
(*   SpecDeep  deep_probe_databases as a pure function of the credentials, *)
(*             the databases found by the OS probes and the engines'       *)
(*             answers, applied once and then again to its own output.     *)
(*   SpecSuite _try_linux_cred as a pure function of what the VM runs and  *)
(*             of how the remote commands of each probe answer.            *)
(*   SpecWeb   the web endpoint that starts discover_all runs in           *)
(*             background threads (src/web/app.py).                        *)
(***************************************************************************)
EXTENDS Integers, Sequences, FiniteSets, TLC

VARIABLES
    \* ---- discover_all: arguments
    vm_targets,      \* list of {name, ip, os_family}
    linux_creds,     \* ordered credential list, one entry per credential
    windows_creds,
    db_creds,        \* list of DatabaseCredential, <<>> when None
    max_workers,
    \* ---- discover_all: main thread
    pc,              \* position of the main thread
    result,          \* the WorkloadDiscoveryResult under construction
    \* ---- discover_all: one task (future) per target
    task,            \* task[i]: position of _scan(vm_targets[i])
    wl,              \* wl[i]: the VMWorkloads record local to task i
    cred_idx,        \* cred_idx[i]: index of the next credential to try
    last_err,        \* last_err[i]: the local last_err of discover_vm
    probe_log,       \* probe_log[i]: outcomes of the attempts made so far
    deep_calls,      \* deep_calls[i]: direct database probes made for VM i
    r_done,          \* r_done[i]: value of `done` loaded by task i
    r_errors,        \* r_errors[i]: value of `errors` loaded by task i
    \* ---- discover_all: state shared by the workers
    done,            \* nonlocal done
    errors,          \* nonlocal errors
    progress,        \* self.progress, written under self._lock
    \* ---- _build_dependencies as a pure function
    dep_pc,          \* "input" | "built"
    dep_vms,         \* the vm_workloads argument
    dep_edges,       \* the returned list
    \* ---- deep_probe_databases as a pure function
    deep_pc,         \* "input" | "probed" | "reprobed"
    deep_in,         \* the arguments and the engines' answers
    deep_out,        \* what each application returned or raised
    deep_wl,         \* the record discover_vm builds around the first application
    \* ---- _try_linux_cred as a pure function
    suite_pc,        \* "input" | "tried"
    suite_in,        \* what the VM runs and how each probe's commands answer
    suite_out,       \* what the suite returned or raised, and last_err after it
    \* ---- web/app.py: POST /api/workloads/discover
    _workload_discoverer,  \* the module global: 0 for None, else the object's number
    discoverers,     \* discoverers[d]: progress["status"] of the d-th GuestDiscoverer
    threads,         \* threads[t]: position of the t-th _run_workload_discovery
    responses        \* the HTTP status codes returned so far

runVars == <<vm_targets, linux_creds, windows_creds, db_creds, max_workers,
             pc, result, task, wl, cred_idx, last_err, probe_log, deep_calls,
             r_done, r_errors, done, errors, progress>>
deepVars == <<deep_pc, deep_in, deep_out, deep_wl>>
suiteVars == <<suite_pc, suite_in, suite_out>>
webVars == <<_workload_discoverer, discoverers, threads, responses>>
depVars == <<dep_pc, dep_vms, dep_edges, deepVars, suiteVars, webVars>>
vars == <<runVars, depVars>>

-----------------------------------------------------------------------------
(* Bounds of the model                                                     *)

MaxTargets == 2
MaxCreds == 2
MaxWorkers == 2
MaxVMs == 2
MaxConns == 2
MaxDbs == 2
MaxDbCreds == 2
MaxRequests == 3

-----------------------------------------------------------------------------
(* Small helpers                                                           *)

Range(s) == {s[k] : k \in DOMAIN s}

SeqsUpTo(S, n) == UNION {[1..k -> S] : k \in 0..n}

\* Python dict: a function; d[k] = v overwrites or extends
EmptyDict == <<>>
DictPut(d, k, v) == [x \in (DOMAIN d) \cup {k} |-> IF x = k THEN v ELSE d[x]]
DictGet(d, k, default) == IF k \in DOMAIN d THEN d[k] ELSE default

-----------------------------------------------------------------------------
(* Data model (models_workload.py)                                         *)

ListeningPort(port, process) == [port |-> port, process |-> process]

EstablishedConnection(remote_ip, remote_port, process, pid) ==
    [remote_ip |-> remote_ip, remote_port |-> remote_port,
     process |-> process, pid |-> pid]

\* connection_error and discovery_method are attributes the deep probes set
\* on the object; "" stands for "not set".
DiscoveredDatabase(engine, port, instance_name) ==
    [vm_name |-> "", engine |-> engine, port |-> port,
     instance_name |-> instance_name,
     discovery_method |-> "", connection_error |-> ""]

DiscoveredWebApp(runtime, framework, port) ==
    [vm_name |-> "", runtime |-> runtime, framework |-> framework, port |-> port]

DiscoveredContainerRuntime(runtime) == [vm_name |-> "", runtime |-> runtime]

DiscoveredOrchestrator(type) == [vm_name |-> "", type |-> type]

WorkloadDependency(source_vm, source_workload, target_vm, target_workload, target_port) ==
    [source_vm |-> source_vm, source_workload |-> source_workload,
     target_vm |-> target_vm, target_workload |-> target_workload,
     target_port |-> target_port]

VMWorkloads(vm_name, ip, os_family) ==
    [vm_name |-> vm_name, ip_addresses |-> <<ip>>, os_family |-> os_family,
     scan_status |-> "pending", scan_error |-> "",
     databases |-> <<>>, web_apps |-> <<>>, container_runtimes |-> <<>>,
     orchestrators |-> <<>>, listening_ports |-> <<>>,
     established_connections |-> <<>>]

-----------------------------------------------------------------------------
(* _build_dependencies                                                     *)

\* for ip in vmw.ip_addresses: ip_to_vm[ip] = vmw.vm_name
RECURSIVE PutIps(_, _, _, _)
PutIps(d, ips, k, name) ==
    IF k > Len(ips) THEN d
    ELSE PutIps(DictPut(d, ips[k], name), ips, k + 1, name)

\* the ip -> vm_name map after the first n records
RECURSIVE IpToVm(_, _)
IpToVm(vms, n) ==
    IF n = 0 THEN EmptyDict
    ELSE PutIps(IpToVm(vms, n - 1), vms[n].ip_addresses, 1, vms[n].vm_name)

\* for db in vmw.databases: port_to_workload[(vm, db.port)] = "engine:instance"
RECURSIVE PutDatabases(_, _, _, _)
PutDatabases(d, name, dbs, k) ==
    IF k > Len(dbs) THEN d
    ELSE PutDatabases(
            DictPut(d, <<name, dbs[k].port>>,
                    dbs[k].engine \o ":" \o dbs[k].instance_name),
            name, dbs, k + 1)

\* for wa in vmw.web_apps: if wa.port: port_to_workload[...] = "runtime:framework"
RECURSIVE PutWebApps(_, _, _, _)
PutWebApps(d, name, was, k) ==
    IF k > Len(was) THEN d
    ELSE PutWebApps(
            IF was[k].port # 0
            THEN DictPut(d, <<name, was[k].port>>,
                         was[k].runtime \o ":" \o was[k].framework)
            ELSE d,
            name, was, k + 1)

\* lp.process or f"port-{lp.port}"
PortLabel(lp) == IF lp.process # "" THEN lp.process ELSE "port-" \o ToString(lp.port)

\* for lp in vmw.listening_ports: only when the key is not yet present
RECURSIVE PutListeningPorts(_, _, _, _)
PutListeningPorts(d, name, lps, k) ==
    IF k > Len(lps) THEN d
    ELSE PutListeningPorts(
            IF <<name, lps[k].port>> \in DOMAIN d THEN d
            ELSE DictPut(d, <<name, lps[k].port>>, PortLabel(lps[k])),
            name, lps, k + 1)

\* the (vm_name, port) -> workload label map after the first n records
RECURSIVE PortToWorkload(_, _)
PortToWorkload(vms, n) ==
    IF n = 0 THEN EmptyDict
    ELSE PutListeningPorts(
            PutWebApps(
                PutDatabases(PortToWorkload(vms, n - 1),
                             vms[n].vm_name, vms[n].databases, 1),
                vms[n].vm_name, vms[n].web_apps, 1),
            vms[n].vm_name, vms[n].listening_ports, 1)

NoVM == ""

\* conn.process or f"pid-{conn.pid}"
SourceLabel(conn) ==
    IF conn.process # "" THEN conn.process ELSE "pid-" \o ToString(conn.pid)

\* a dedup key that also tells the connections' processes apart
DedupKeyPerProcess(source_vm, target_vm, conn) ==
    <<source_vm, target_vm, conn.remote_port, conn.process>>

\* dedup_key = (vmw.vm_name, target_vm, conn.remote_port)
DedupKey(source_vm, target_vm, conn) == <<source_vm, target_vm, conn.remote_port>>

\* if not target_vm or target_vm == vmw.vm_name: continue
SkipConn(source_vm, target_vm) == target_vm = NoVM \/ target_vm = source_vm

\* the loop over every record r and every connection c of it, in order;
\* st = [deps, seen]
RECURSIVE MatchConnections(_, _, _, _, _, _)
MatchConnections(vms, ip_to_vm, port_to_workload, r, c, st) ==
    IF r > Len(vms) THEN st
    ELSE IF c > Len(vms[r].established_connections)
    THEN MatchConnections(vms, ip_to_vm, port_to_workload, r + 1, 1, st)
    ELSE
      LET vmw       == vms[r]
          conn      == vmw.established_connections[c]
          target_vm == DictGet(ip_to_vm, conn.remote_ip, NoVM)
          dedup_key == DedupKey(vmw.vm_name, target_vm, conn)
          edge      == WorkloadDependency(
                          vmw.vm_name, SourceLabel(conn), target_vm,
                          DictGet(port_to_workload, <<target_vm, conn.remote_port>>,
                                  "port-" \o ToString(conn.remote_port)),
                          conn.remote_port)
      IN  MatchConnections(vms, ip_to_vm, port_to_workload, r, c + 1,
            IF SkipConn(vmw.vm_name, target_vm) \/ dedup_key \in st.seen
            THEN st
            ELSE [deps |-> Append(st.deps, edge),
                  seen |-> st.seen \cup {dedup_key}])

_build_dependencies(vm_workloads) ==
    MatchConnections(vm_workloads,
                     IpToVm(vm_workloads, Len(vm_workloads)),
                     PortToWorkload(vm_workloads, Len(vm_workloads)),
                     1, 1, [deps |-> <<>>, seen |-> {}]).deps

-----------------------------------------------------------------------------
(* Credentials and the direct database probes                              *)

Credential(k) == [username |-> "user" \o ToString(k)]

\* DatabaseCredential._default_port
_default_port(engine) ==
    CASE engine = "mssql"      -> 1433
      [] engine = "mysql"      -> 3306
      [] engine = "mariadb"    -> 3306
      [] engine = "postgresql" -> 5432
      [] engine = "oracle"     -> 1521
      [] engine = "mongodb"    -> 27017
      [] engine = "redis"      -> 6379
      [] OTHER                 -> 0

\* DatabaseCredential.__init__: self.port = port or self._default_port()
DatabaseCredential(engine, port) ==
    [engine |-> engine, port |-> IF port # 0 THEN port ELSE _default_port(engine)]

\* keys of _DEEP_PROBE_MAP; mysql and mariadb share _deep_probe_mysql
_DEEP_PROBE_MAP == {"mysql", "mariadb", "postgresql", "mssql", "mongodb", "redis"}

\* _ENGINE_PORT_MAP in iteration order
_ENGINE_PORT_MAP ==
    << <<3306, "mysql">>, <<5432, "postgresql">>, <<1433, "mssql">>,
       <<1521, "oracle">>, <<27017, "mongodb">>, <<6379, "redis">> >>

\* the declared fields of the DiscoveredDatabase dataclass
DiscoveredDatabaseFields ==
    {"vm_name", "engine", "version", "instance_name", "port", "databases",
     "size_mb", "status", "edition"}

\* what the environment answers to one direct probe: the client library is
\* missing, the connection or a query raises, the probe succeeds, or it
\* succeeds against a server whose version string names MariaDB
DeepOutcomes == {"no_driver", "failed", "ok", "ok_mariadb"}

DriverMissing(engine) ==
    CASE engine \in {"mysql", "mariadb"} -> "pymysql or mysql-connector-python not installed"
      [] engine = "postgresql"           -> "psycopg2 not installed"
      [] engine = "mssql"                -> "pymssql not installed"
      [] engine = "mongodb"              -> "pymongo not installed"
      [] OTHER                           -> "redis package not installed"

TypeErrorHost == "DiscoveredDatabase.__init__() got an unexpected keyword argument 'host'"

\* _deep_probe_<engine>(host, cred, existing=db): fields are updated in place
DeepProbeExisting(db, outcome) ==
    LET d0 == [db EXCEPT !.discovery_method = "direct_connect"]
    IN  CASE outcome = "no_driver" ->
               [d0 EXCEPT !.connection_error = DriverMissing(db.engine)]
          [] outcome = "failed" ->
               [d0 EXCEPT !.connection_error = "connection failed"]
          [] OTHER ->
               [d0 EXCEPT
                  !.engine = IF outcome = "ok_mariadb" /\ db.engine \in {"mysql", "mariadb"}
                             THEN "mariadb" ELSE db.engine,
                  !.instance_name = IF db.instance_name # "" THEN db.instance_name
                                    ELSE "default",
                  !.connection_error = ""]

\* _deep_probe_<engine>(host, cred) with existing=None:
\*   db = existing or DiscoveredDatabase(engine=..., port=port, host=host)
\* the constructor is called with the keywords engine, port and host
DeepProbeNew(engine, port) ==
    LET kwargs == {"engine", "port", "host"}
    IN  IF kwargs \subseteq DiscoveredDatabaseFields
        THEN [raised |-> FALSE, error |-> "",
              db |-> [DiscoveredDatabase(engine, port, "") EXCEPT
                         !.discovery_method = "direct_connect"]]
        ELSE [raised |-> TRUE, error |-> TypeErrorHost,
              db |-> DiscoveredDatabase(engine, port, "")]

\* if cred.engine in (eng_key, "auto") or (cred.port and cred.port == db.port)
CredMatches(cred, db) ==
    cred.engine \in {db.engine, "auto"} \/ (cred.port # 0 /\ cred.port = db.port)

\* index of the credential pass 1 uses for db, 0 when none: the first matching
\* one, provided the engine has a probe function
Pass1Cred(db, creds) ==
    LET hits == {ci \in DOMAIN creds : CredMatches(creds[ci], db)}
    IN  IF db.engine \in _DEEP_PROBE_MAP /\ hits # {}
        THEN CHOOSE ci \in hits : \A cj \in hits : ci <= cj
        ELSE 0

\* Pass 1 over existing[k..]; env[k] is the environment's answer for database k
RECURSIVE Pass1(_, _, _, _, _)
Pass1(existing, creds, env, k, st) ==
    IF k > Len(existing) THEN st
    ELSE LET db == existing[k]
             ci == Pass1Cred(db, creds)
         IN  Pass1(existing, creds, env, k + 1,
                   IF ci = 0
                   THEN [results |-> Append(st.results, db), used |-> st.used]
                   ELSE [results |-> Append(st.results, DeepProbeExisting(db, env[k])),
                         used |-> st.used \cup {ci}])

\* the inner loop of an "auto" credential over _ENGINE_PORT_MAP[m..]
RECURSIVE Pass2Auto(_, _)
Pass2Auto(m, st) ==
    IF m > Len(_ENGINE_PORT_MAP) \/ st.raised THEN st
    ELSE LET port == _ENGINE_PORT_MAP[m][1]
             eng  == _ENGINE_PORT_MAP[m][2]
             new  == DeepProbeNew(eng, port)
         IN  Pass2Auto(m + 1,
               IF <<eng, port>> \in st.existing_engines \/ eng \notin _DEEP_PROBE_MAP
               THEN st
               ELSE IF new.raised
               THEN [st EXCEPT !.raised = TRUE, !.error = new.error]
               ELSE IF new.db.connection_error = ""
               THEN [st EXCEPT !.results = Append(@, new.db),
                               !.existing_engines = @ \cup {<<eng, port>>}]
               ELSE st)

\* Pass 2 over db_creds[ci..]
RECURSIVE Pass2(_, _, _)
Pass2(creds, ci, st) ==
    IF ci > Len(creds) \/ st.raised THEN st
    ELSE LET cred == creds[ci]
             port == IF cred.port # 0 THEN cred.port ELSE _default_port(cred.engine)
             new  == DeepProbeNew(cred.engine, port)
         IN  Pass2(creds, ci + 1,
               IF ci \in st.used THEN st
               ELSE IF cred.engine = "auto" THEN Pass2Auto(1, st)
               ELSE IF <<cred.engine, port>> \in st.existing_engines
                       \/ cred.engine \notin _DEEP_PROBE_MAP
               THEN st
               ELSE IF new.raised
               THEN [st EXCEPT !.raised = TRUE, !.error = new.error]
               ELSE IF new.db.connection_error = ""
               THEN [st EXCEPT !.results = Append(@, new.db)]
               ELSE st)

\* deep_probe_databases(host, db_creds, existing_dbs).  The databases of
\* existing_dbs are updated in place, so when pass 2 raises the caller's list
\* already holds what pass 1 wrote: `enriched` is that list.
deep_probe_databases(creds, existing, env) ==
    LET p1 == Pass1(existing, creds, env, 1, [results |-> <<>>, used |-> {}])
    IN  Pass2(creds, 1,
              [results |-> p1.results, enriched |-> p1.results, used |-> p1.used,
               existing_engines |->
                   {<<p1.results[k].engine, p1.results[k].port>> : k \in DOMAIN p1.results},
               raised |-> FALSE, error |-> ""])

-----------------------------------------------------------------------------
(* The inputs of one discover_all run and what the environment can answer  *)

Ips == {"10.0.0.5", "10.0.0.6"}

OsFamilies == {"linux", "windows", "solaris"}

VmName(i) == "vm" \o ToString(i)

\* the target lists: names are the VMs' identities, addresses may coincide
TargetLists ==
    UNION {
        {[i \in 1..n |-> [name |-> VmName(i), ip |-> ipf[i], os_family |-> osf[i]]] :
            ipf \in [1..n -> Ips], osf \in [1..n -> OsFamilies]} :
        n \in 0..MaxTargets}

CredLists == {[k \in 1..n |-> Credential(k)] : n \in 0..MaxCreds}

DbCredLists ==
    { <<>>,
      <<DatabaseCredential("postgresql", 0)>> }

EmptySuite ==
    [listening_ports |-> <<>>, established_connections |-> <<>>, databases |-> <<>>,
     web_apps |-> <<>>, container_runtimes |-> <<>>, orchestrators |-> <<>>]

\* a VM running PostgreSQL
DbSuite ==
    [EmptySuite EXCEPT
        !.listening_ports = <<ListeningPort(5432, "postgres")>>,
        !.databases = <<DiscoveredDatabase("postgresql", 5432, "default")>>]

\* a VM running a containerised Java application that holds a connection to
\* the PostgreSQL port of the first address
AppSuite ==
    [EmptySuite EXCEPT
        !.listening_ports = <<ListeningPort(8080, "java")>>,
        !.established_connections =
            <<EstablishedConnection("10.0.0.5", 5432, "java", 999)>>,
        !.web_apps = <<DiscoveredWebApp("java", "Spring Boot", 8080)>>,
        !.container_runtimes = <<DiscoveredContainerRuntime("docker")>>,
        !.orchestrators = <<DiscoveredOrchestrator("kubernetes")>>]

SuiteResults == {DbSuite, AppSuite}

\* what an attempt had collected when a later probe of the suite raised: only
\* the port table
PortsOnly(suite) ==
    [EmptySuite EXCEPT !.listening_ports = suite.listening_ports,
                       !.established_connections = suite.established_connections]

\* _try_linux_cred / _try_windows_cred with one credential: the suite returns
\* its six lists, or a probe raises (at the first probe with nothing collected,
\* or later with the port table collected) and the lists are lost with the frame
AttemptOutcomes ==
    {[ok |-> TRUE, data |-> s] : s \in SuiteResults}
    \cup {[ok |-> FALSE, data |-> EmptySuite], [ok |-> FALSE, data |-> PortsOnly(AppSuite)]}

\* last_err = None
None == "None"

\* str(cred_exc) of the failure raised with credential k
CredError(k) == "failure with credential " \o ToString(k)

-----------------------------------------------------------------------------
(* discover_vm                                                             *)

Targets == DOMAIN vm_targets

\* the credential list discover_vm uses for an OS family
CredsFor(os_family) ==
    CASE os_family = "linux"   -> linux_creds
      [] os_family = "windows" -> windows_creds
      [] OTHER                 -> <<>>

SkipReason(os_family) ==
    CASE os_family = "linux"   -> "No Linux credentials provided"
      [] os_family = "windows" -> "No Windows credentials provided"
      [] OTHER                 -> "Unsupported OS family: " \o os_family

\* a missing credential list reported as a failure of the scan
SkippedAsError(w) ==
    [w EXCEPT !.scan_status = "error", !.scan_error = SkipReason(w.os_family)]

\* wl.scan_status = "skipped"; wl.scan_error = ...; return wl
Skipped(w) ==
    [w EXCEPT !.scan_status = "skipped", !.scan_error = SkipReason(w.os_family)]

\* a handler that records the message and forgets the status
FailedKeepsStatus(w, message) == [w EXCEPT !.scan_error = message]

\* except Exception as exc: wl.scan_status = "error"; wl.scan_error = str(exc)
Failed(w, message) ==
    [w EXCEPT !.scan_status = "error", !.scan_error = message]

\* wl.listening_ports = ports; ... wl.orchestrators = orchestrators
Assign(w, data) ==
    [w EXCEPT !.listening_ports = data.listening_ports,
              !.established_connections = data.established_connections,
              !.databases = data.databases,
              !.web_apps = data.web_apps,
              !.container_runtimes = data.container_runtimes,
              !.orchestrators = data.orchestrators]

\* for x in <list>: x.vm_name = vm_name
SetVmName(xs, vm_name) == [k \in DOMAIN xs |-> [xs[k] EXCEPT !.vm_name = vm_name]]

\* "Set vm_name on child objects"
Owned(w) ==
    [w EXCEPT !.databases = SetVmName(@, w.vm_name),
              !.web_apps = SetVmName(@, w.vm_name),
              !.container_runtimes = SetVmName(@, w.vm_name),
              !.orchestrators = SetVmName(@, w.vm_name)]

\* a deep probe whose exception is recorded without leaving the success path
CompletedDespiteError(w, creds, env) ==
    LET o    == Owned(w)
        deep == deep_probe_databases(creds, o.databases, env)
    IN  IF creds = <<>>
        THEN [o EXCEPT !.scan_status = "complete"]
        ELSE [o EXCEPT !.databases = SetVmName(deep.results, o.vm_name),
                       !.scan_error = deep.error,
                       !.scan_status = "complete"]

\* the part of discover_vm after a successful attempt: the child objects get
\* the VM's name, the deep probe runs when db_creds is given, and the status
\* becomes "complete" unless the deep probe raised
Completed(w, creds, env) ==
    LET o    == Owned(w)
        deep == deep_probe_databases(creds, o.databases, env)
    IN  IF creds = <<>>
        THEN [o EXCEPT !.scan_status = "complete"]
        ELSE IF deep.raised
        THEN Failed([o EXCEPT !.databases = deep.enriched], deep.error)
        ELSE [o EXCEPT !.databases = SetVmName(deep.results, o.vm_name),
                       !.scan_status = "complete"]

-----------------------------------------------------------------------------
(* discover_all: the state after GuestDiscoverer() and before the call     *)

NewProgress ==
    [status |-> "idle", progress |-> 0, current_vm |-> "",
     scanned |-> 0, total |-> 0, errors |-> 0]

WorkloadDiscoveryResult ==
    [vm_workloads |-> <<>>, dependencies |-> <<>>,
     total_databases |-> 0, total_webapps |-> 0, total_containers |-> 0,
     total_orchestrators |-> 0,
     scanned_count |-> 0, error_count |-> 0, skipped_count |-> 0]

DeepIdle ==
    /\ deep_pc = "idle"
    /\ deep_in = <<>>
    /\ deep_out = <<>>
    /\ deep_wl = <<>>

SuiteIdle ==
    /\ suite_pc = "idle"
    /\ suite_in = <<>>
    /\ suite_out = <<>>

\* _workload_discoverer: GuestDiscoverer | None = None
WebIdle ==
    /\ _workload_discoverer = 0
    /\ discoverers = <<>>
    /\ threads = <<>>
    /\ responses = <<>>

DepIdle ==
    /\ dep_pc = "idle"
    /\ dep_vms = <<>>
    /\ dep_edges = <<>>
    /\ DeepIdle
    /\ SuiteIdle
    /\ WebIdle

Init ==
    /\ vm_targets \in TargetLists
    /\ linux_creds \in CredLists
    /\ windows_creds \in CredLists
    /\ db_creds \in DbCredLists
    /\ max_workers \in 1..MaxWorkers
    /\ pc = "start"
    /\ result = WorkloadDiscoveryResult
    /\ task = [i \in Targets |-> "unsubmitted"]
    /\ wl = [i \in Targets |-> VMWorkloads(vm_targets[i].name, vm_targets[i].ip,
                                           vm_targets[i].os_family)]
    /\ cred_idx = [i \in Targets |-> 1]
    /\ last_err = [i \in Targets |-> None]
    /\ probe_log = [i \in Targets |-> <<>>]
    /\ deep_calls = [i \in Targets |-> 0]
    /\ r_done = [i \in Targets |-> 0]
    /\ r_errors = [i \in Targets |-> 0]
    /\ done = 0
    /\ errors = 0
    /\ progress = NewProgress
    /\ DepIdle

inputs == <<vm_targets, linux_creds, windows_creds, db_creds, max_workers>>

-----------------------------------------------------------------------------
(* discover_all: the worker tasks                                          *)

\* the positions at which a pool thread is executing _scan; "stalled": inside
\* a remote command that never returns
InScan == {"trying", "load_done", "store_done", "load_errors", "store_errors",
           "eval_args", "update", "stalled"}

\* a pool that counts only the threads waiting for a remote command
BusyOnlyProbing == {i \in Targets : task[i] = "trying"}

\* a pool whose threads are not handed back when their task has returned
BusyCountsFinished == {i \in Targets : task[i] \in InScan \cup {"finished", "collected"}}

Busy == {i \in Targets : task[i] \in InScan}

\* a free pool thread takes the oldest queued work item and enters _scan:
\*   self._update(current_vm=name, ...)
\* and discover_vm runs up to its first remote command: the OS family and its
\* credential list decide between "skipped" (return) and "scanning"
Start(i) ==
    /\ pc = "collecting"
    /\ task[i] = "queued"
    /\ \A j \in Targets : j < i => task[j] # "queued"
    /\ Cardinality(Busy) < max_workers
    /\ progress' = [progress EXCEPT !.current_vm = vm_targets[i].name]
    /\ IF CredsFor(wl[i].os_family) = <<>>
       THEN /\ wl' = [wl EXCEPT ![i] = Skipped(@)]
            /\ task' = [task EXCEPT ![i] = "load_done"]
       ELSE /\ wl' = [wl EXCEPT ![i].scan_status = "scanning"]
            /\ task' = [task EXCEPT ![i] = "trying"]
    /\ UNCHANGED <<inputs, pc, result, cred_idx, last_err, probe_log, deep_calls,
                   r_done, r_errors, done, errors, depVars>>

\* what the attempt leaves in the log: whether the suite returned, and what
Logged(out) == [ok |-> out.ok, data |-> IF out.ok THEN out.data ELSE EmptySuite]

\* the answers the deep probe can get for the databases dbs; no probe is made
\* without database credentials
DeepEnvs(dbs) ==
    IF db_creds = <<>> THEN {[k \in DOMAIN dbs |-> "ok"]}
    ELSE [DOMAIN dbs -> DeepOutcomes]

\* a failed attempt that puts the record back to "pending" for the next one
AfterFailurePending(w, out) == [w EXCEPT !.scan_status = "pending"]

\* a failed attempt raises out of _try_<os>_cred: the record is not touched
AfterFailure(w, out) == w

\* a handler that keeps the first failure instead of the last
CaughtErrFirst(prev, cred_exc) == IF prev # None THEN prev ELSE cred_exc

\* except Exception as cred_exc: last_err = cred_exc
CaughtErr(prev, cred_exc) == cred_exc

\* a credential loop without the `break`: after a success the remaining
\* credentials are tried as well
AttemptWithoutBreak(i) ==
    /\ task[i] = "trying"
    /\ \E out \in AttemptOutcomes :
        LET more == cred_idx[i] < Len(CredsFor(wl[i].os_family))
        IN  IF out.ok
            THEN /\ \E env \in DeepEnvs(out.data.databases) :
                      wl' = [wl EXCEPT ![i] = Completed(Assign(@, out.data), db_creds, env)]
                 /\ probe_log' = [probe_log EXCEPT ![i] = Append(@, Logged(out))]
                 /\ last_err' = [last_err EXCEPT ![i] = None]
                 /\ deep_calls' = [deep_calls EXCEPT ![i] = IF db_creds = <<>> THEN 0 ELSE 1]
                 /\ task' = [task EXCEPT ![i] = IF more THEN "trying" ELSE "load_done"]
                 /\ cred_idx' = [cred_idx EXCEPT ![i] = IF more THEN @ + 1 ELSE @]
            ELSE LET err == CaughtErr(last_err[i], CredError(cred_idx[i]))
                 IN  /\ probe_log' = [probe_log EXCEPT ![i] = Append(@, Logged(out))]
                     /\ last_err' = [last_err EXCEPT ![i] = err]
                     /\ UNCHANGED deep_calls
                     /\ IF more
                        THEN /\ wl' = [wl EXCEPT ![i] = AfterFailure(@, out)]
                             /\ cred_idx' = [cred_idx EXCEPT ![i] = @ + 1]
                             /\ UNCHANGED task
                        ELSE /\ wl' = [wl EXCEPT ![i] = Failed(AfterFailure(@, out), err)]
                             /\ task' = [task EXCEPT ![i] = "load_done"]
                             /\ UNCHANGED cred_idx
    /\ UNCHANGED <<inputs, pc, result, r_done, r_errors, done, errors,
                   progress, depVars>>

\* one iteration of `for idx, cred in enumerate(creds)`: the probe suite runs
\* with credential cred_idx[i].  Success assigns the six lists, leaves the
\* loop and runs the rest of discover_vm (vm_name on the children, the deep
\* probe, "complete"); failure keeps last_err and goes on with the next
\* credential, or raises last_err after the last one ("error")
Attempt(i) ==
    /\ task[i] = "trying"
    /\ \E out \in AttemptOutcomes :
        IF out.ok
        THEN /\ \E env \in DeepEnvs(out.data.databases) :
                  wl' = [wl EXCEPT ![i] = Completed(Assign(@, out.data), db_creds, env)]
             /\ probe_log' = [probe_log EXCEPT ![i] = Append(@, Logged(out))]
             /\ last_err' = [last_err EXCEPT ![i] = None]
             /\ deep_calls' = [deep_calls EXCEPT ![i] = IF db_creds = <<>> THEN 0 ELSE 1]
             /\ task' = [task EXCEPT ![i] = "load_done"]
             /\ UNCHANGED cred_idx
        ELSE LET err == CaughtErr(last_err[i], CredError(cred_idx[i]))
             IN  /\ probe_log' = [probe_log EXCEPT ![i] = Append(@, Logged(out))]
                 /\ last_err' = [last_err EXCEPT ![i] = err]
                 /\ UNCHANGED deep_calls
                 /\ IF cred_idx[i] < Len(CredsFor(wl[i].os_family))
                    THEN /\ wl' = [wl EXCEPT ![i] = AfterFailure(@, out)]
                         /\ cred_idx' = [cred_idx EXCEPT ![i] = @ + 1]
                         /\ UNCHANGED task
                    ELSE /\ wl' = [wl EXCEPT ![i] = Failed(AfterFailure(@, out), err)]
                         /\ task' = [task EXCEPT ![i] = "load_done"]
                         /\ UNCHANGED cred_idx
    /\ UNCHANGED <<inputs, pc, result, r_done, r_errors, done, errors,
                   progress, depVars>>

\* done += 1 is a load and a store of the closure variable
LoadDone(i) ==
    /\ task[i] = "load_done"
    /\ r_done' = [r_done EXCEPT ![i] = done]
    /\ task' = [task EXCEPT ![i] = "store_done"]
    /\ UNCHANGED <<inputs, pc, result, wl, cred_idx, last_err, probe_log, deep_calls,
                   r_errors, done, errors, progress, depVars>>

StoreDone(i) ==
    /\ task[i] = "store_done"
    /\ done' = r_done[i] + 1
    /\ task' = [task EXCEPT ![i] = IF wl[i].scan_status = "error"
                                   THEN "load_errors" ELSE "eval_args"]
    /\ UNCHANGED <<inputs, pc, result, wl, cred_idx, last_err, probe_log, deep_calls,
                   r_done, r_errors, errors, progress, depVars>>

\* if wl.scan_status == "error": errors += 1
LoadErrors(i) ==
    /\ task[i] = "load_errors"
    /\ r_errors' = [r_errors EXCEPT ![i] = errors]
    /\ task' = [task EXCEPT ![i] = "store_errors"]
    /\ UNCHANGED <<inputs, pc, result, wl, cred_idx, last_err, probe_log, deep_calls,
                   r_done, done, errors, progress, depVars>>

StoreErrors(i) ==
    /\ task[i] = "store_errors"
    /\ errors' = r_errors[i] + 1
    /\ task' = [task EXCEPT ![i] = "eval_args"]
    /\ UNCHANGED <<inputs, pc, result, wl, cred_idx, last_err, probe_log, deep_calls,
                   r_done, r_errors, done, progress, depVars>>

\* the arguments of the last self._update are evaluated before the lock is
\* taken: pct = int(90 * done / max(total, 1)), scanned=done, errors=errors
EvalArgs(i) ==
    /\ task[i] = "eval_args"
    /\ r_done' = [r_done EXCEPT ![i] = done]
    /\ r_errors' = [r_errors EXCEPT ![i] = errors]
    /\ task' = [task EXCEPT ![i] = "update"]
    /\ UNCHANGED <<inputs, pc, result, wl, cred_idx, last_err, probe_log, deep_calls,
                   done, errors, progress, depVars>>

Pct(d, total) == (90 * d) \div (IF total > 1 THEN total ELSE 1)

\* self._update(progress=pct, scanned=done, errors=errors, ...) under the
\* lock; _scan returns and the future is finished
Update(i) ==
    /\ task[i] = "update"
    /\ progress' = [progress EXCEPT !.progress = Pct(r_done[i], Len(vm_targets)),
                                    !.scanned = r_done[i],
                                    !.errors = r_errors[i]]
    /\ r_done' = [r_done EXCEPT ![i] = 0]
    /\ r_errors' = [r_errors EXCEPT ![i] = 0]
    /\ task' = [task EXCEPT ![i] = "finished"]
    /\ UNCHANGED <<inputs, pc, result, wl, cred_idx, last_err, probe_log, deep_calls,
                   done, errors, depVars>>

-----------------------------------------------------------------------------
(* discover_all: the main thread                                           *)

\* self._update(status="scanning", progress=0, scanned=0, total=total, errors=0)
\* and, inside the pool, one pool.submit(_scan, t) per target
Begin ==
    /\ pc = "start"
    /\ progress' = [progress EXCEPT !.status = "scanning", !.progress = 0,
                                    !.scanned = 0, !.total = Len(vm_targets),
                                    !.errors = 0]
    /\ task' = [i \in Targets |-> "queued"]
    /\ pc' = "collecting"
    /\ UNCHANGED <<inputs, result, wl, cred_idx, last_err, probe_log, deep_calls,
                   r_done, r_errors, done, errors, depVars>>

\* a collection loop that stops appending once a failed record has come in
CollectUnlessSiblingFailed(i) ==
    /\ pc = "collecting"
    /\ task[i] = "finished"
    /\ result' = IF \E k \in DOMAIN result.vm_workloads :
                        result.vm_workloads[k].scan_status = "error"
                 THEN result
                 ELSE [result EXCEPT !.vm_workloads = Append(@, wl[i])]
    /\ task' = [task EXCEPT ![i] = "collected"]
    /\ UNCHANGED <<inputs, pc, wl, cred_idx, last_err, probe_log, deep_calls,
                   r_done, r_errors, done, errors, progress, depVars>>

\* one iteration of `for future in as_completed(futures)`: a finished future
\* is taken and its record appended
Collect(i) ==
    /\ pc = "collecting"
    /\ task[i] = "finished"
    /\ result' = [result EXCEPT !.vm_workloads = Append(@, wl[i])]
    /\ task' = [task EXCEPT ![i] = "collected"]
    /\ UNCHANGED <<inputs, pc, wl, cred_idx, last_err, probe_log, deep_calls,
                   r_done, r_errors, done, errors, progress, depVars>>

\* a topology build that starts as soon as nothing is left in the pool's
\* queue, while dispatched scans may still be running
AnalyzeWithoutJoin ==
    /\ pc = "collecting"
    /\ \A i \in Targets : task[i] # "queued"
    /\ progress' = [progress EXCEPT !.status = "analyzing", !.progress = 92]
    /\ result' = [result EXCEPT !.dependencies = _build_dependencies(result.vm_workloads)]
    /\ pc' = "totals"
    /\ UNCHANGED <<inputs, task, wl, cred_idx, last_err, probe_log, deep_calls,
                   r_done, r_errors, done, errors, depVars>>

\* a topology build that consumes the connections it has matched: it empties
\* established_connections of every record of the result list
AnalyzeConsumingConnections ==
    /\ pc = "collecting"
    /\ \A i \in Targets : task[i] = "collected"
    /\ progress' = [progress EXCEPT !.status = "analyzing", !.progress = 92]
    /\ result' = [result EXCEPT
                     !.dependencies = _build_dependencies(result.vm_workloads),
                     !.vm_workloads = [k \in DOMAIN @ |->
                                          [@[k] EXCEPT !.established_connections = <<>>]]]
    /\ pc' = "totals"
    /\ UNCHANGED <<inputs, task, wl, cred_idx, last_err, probe_log, deep_calls,
                   r_done, r_errors, done, errors, depVars>>

\* as_completed is exhausted and the pool has shut down:
\*   self._update(status="analyzing", progress=92)
\*   result.dependencies = _build_dependencies(result.vm_workloads)
Analyze ==
    /\ pc = "collecting"
    /\ \A i \in Targets : task[i] = "collected"
    /\ progress' = [progress EXCEPT !.status = "analyzing", !.progress = 92]
    /\ result' = [result EXCEPT !.dependencies = _build_dependencies(result.vm_workloads)]
    /\ pc' = "totals"
    /\ UNCHANGED <<inputs, task, wl, cred_idx, last_err, probe_log, deep_calls,
                   r_done, r_errors, done, errors, depVars>>

\* totals that count every record without an error as scanned
RECURSIVE ComputeTotalsNotError(_, _)
ComputeTotalsNotError(res, k) ==
    IF k > Len(res.vm_workloads) THEN res
    ELSE LET vmw == res.vm_workloads[k]
         IN  ComputeTotalsNotError(
               [res EXCEPT
                  !.total_databases = @ + Len(vmw.databases),
                  !.total_webapps = @ + Len(vmw.web_apps),
                  !.total_containers = @ + Len(vmw.container_runtimes),
                  !.total_orchestrators = @ + Len(vmw.orchestrators),
                  !.scanned_count = @ + (IF vmw.scan_status # "error" THEN 1 ELSE 0),
                  !.error_count = @ + (IF vmw.scan_status = "error" THEN 1 ELSE 0),
                  !.skipped_count = @ + (IF vmw.scan_status = "skipped" THEN 1 ELSE 0)],
               k + 1)

\* "Compute totals": the loop over result.vm_workloads[k..]
RECURSIVE ComputeTotals(_, _)
ComputeTotals(res, k) ==
    IF k > Len(res.vm_workloads) THEN res
    ELSE LET vmw == res.vm_workloads[k]
         IN  ComputeTotals(
               [res EXCEPT
                  !.total_databases = @ + Len(vmw.databases),
                  !.total_webapps = @ + Len(vmw.web_apps),
                  !.total_containers = @ + Len(vmw.container_runtimes),
                  !.total_orchestrators = @ + Len(vmw.orchestrators),
                  !.scanned_count = @ + (IF vmw.scan_status = "complete" THEN 1 ELSE 0),
                  !.error_count = @ + (IF vmw.scan_status = "error" THEN 1 ELSE 0),
                  !.skipped_count = @ + (IF vmw.scan_status = "skipped" THEN 1 ELSE 0)],
               k + 1)

\* the totals, self._update(status="complete", progress=100), return result
Return ==
    /\ pc = "totals"
    /\ result' = ComputeTotals(result, 1)
    /\ progress' = [progress EXCEPT !.status = "complete", !.progress = 100]
    /\ pc' = "returned"
    /\ UNCHANGED <<inputs, task, wl, cred_idx, last_err, probe_log, deep_calls,
                   r_done, r_errors, done, errors, depVars>>

Next ==
    \/ Begin
    \/ \E i \in Targets : Start(i)
    \/ \E i \in Targets : Attempt(i)
    \/ \E i \in Targets : LoadDone(i)
    \/ \E i \in Targets : StoreDone(i)
    \/ \E i \in Targets : LoadErrors(i)
    \/ \E i \in Targets : StoreErrors(i)
    \/ \E i \in Targets : EvalArgs(i)
    \/ \E i \in Targets : Update(i)
    \/ \E i \in Targets : Collect(i)
    \/ Analyze
    \/ Return

Spec == Init /\ [][Next]_vars

-----------------------------------------------------------------------------
(* discover_all when one remote command never returns                      *)

\* a remote command of the attempt hangs: neither _run_ssh nor _run_winrm
\* returns or raises, and the pool thread stays inside discover_vm.  At most
\* one VM of the run stalls.
Stall(i) ==
    /\ task[i] = "trying"
    /\ \A j \in Targets : task[j] # "stalled"
    /\ task' = [task EXCEPT ![i] = "stalled"]
    /\ UNCHANGED <<inputs, pc, result, wl, cred_idx, last_err, probe_log, deep_calls,
                   r_done, r_errors, done, errors, progress, depVars>>

NextStall ==
    \/ Next
    \/ \E i \in Targets : Stall(i)

\* every thread that is not inside the hanging command keeps running
SpecStall == Init /\ [][NextStall]_vars /\ WF_vars(Next)

-----------------------------------------------------------------------------
(* _build_dependencies as a pure function of the collected records         *)

ExternalIp == "192.168.1.1"

RemoteIps == Ips \cup {ExternalIp}

RemotePorts == {5432, 8080}

\* the owning process of a connection: known, or "" (then the pid is shown)
Processes == {"java", ""}

ConnUniverse ==
    {EstablishedConnection(ip, port, proc, 999) :
        ip \in RemoteIps, port \in RemotePorts, proc \in Processes}

\* a record as discover_vm returns it for a scanned VM: one address, the
\* connections as given, a PostgreSQL database when has_db
ScannedRecord(i, ip, conns, has_db) ==
    [VMWorkloads(VmName(i), ip, "linux") EXCEPT
        !.scan_status = "complete",
        !.established_connections = conns,
        !.listening_ports = IF has_db THEN DbSuite.listening_ports ELSE <<>>,
        !.databases = IF has_db THEN SetVmName(DbSuite.databases, VmName(i)) ELSE <<>>]

ConnLists == SeqsUpTo(ConnUniverse, MaxConns)

\* what listens on port 5432 of a VM: nothing; PostgreSQL; a Java process,
\* which the probes report as a web app and, by the port number, also as a
\* PostgreSQL database; a Java web app alone; a process of no known workload
WorkloadKinds == {"none", "db", "db_webapp", "webapp", "port"}

ProfiledRecord(i, ip, conns, kind) ==
    LET base   == ScannedRecord(i, ip, conns, kind \in {"db", "db_webapp"})
        webapp == SetVmName(<<DiscoveredWebApp("java", "Spring Boot", 5432)>>, VmName(i))
    IN  CASE kind = "db_webapp" ->
               [base EXCEPT !.web_apps = webapp,
                            !.listening_ports = <<ListeningPort(5432, "java")>>]
          [] kind = "webapp" ->
               [base EXCEPT !.web_apps = webapp,
                            !.listening_ports = <<ListeningPort(5432, "java")>>]
          [] kind = "port" ->
               [base EXCEPT !.listening_ports = <<ListeningPort(5432, "haproxy")>>]
          [] OTHER -> base

RunIdle ==
    /\ vm_targets = <<>>
    /\ linux_creds = <<>>
    /\ windows_creds = <<>>
    /\ db_creds = <<>>
    /\ max_workers = 1
    /\ pc = "idle"
    /\ result = WorkloadDiscoveryResult
    /\ task = <<>>
    /\ wl = <<>>
    /\ cred_idx = <<>>
    /\ last_err = <<>>
    /\ probe_log = <<>>
    /\ deep_calls = <<>>
    /\ r_done = <<>>
    /\ r_errors = <<>>
    /\ done = 0
    /\ errors = 0
    /\ progress = NewProgress

InitDeps ==
    /\ RunIdle
    /\ DeepIdle
    /\ SuiteIdle
    /\ WebIdle
    /\ dep_pc = "input"
    /\ \E n \in 0..MaxVMs, kind \in WorkloadKinds :
         \E ipf \in [1..n -> Ips], cf \in [1..n -> ConnLists] :
            dep_vms = [i \in 1..n |->
                          ProfiledRecord(i, ipf[i], cf[i], IF i = 1 THEN kind ELSE "none")]
    /\ dep_edges = <<>>

BuildDependencies ==
    /\ dep_pc = "input"
    /\ dep_edges' = _build_dependencies(dep_vms)
    /\ dep_pc' = "built"
    /\ UNCHANGED <<runVars, dep_vms, deepVars, suiteVars, webVars>>

NextDeps == BuildDependencies

SpecDeps == InitDeps /\ [][NextDeps]_vars

-----------------------------------------------------------------------------
(* deep_probe_databases as a pure function                                 *)

\* the database records a caller can pass as existing_dbs: MySQL on its
\* default and on another port, MariaDB, PostgreSQL, and Oracle (which has no
\* direct probe); their (engine, port) pairs are pairwise distinct
FoundDatabases ==
    {DiscoveredDatabase("mysql", 3306, "default"),
     DiscoveredDatabase("mysql", 3307, ""),
     DiscoveredDatabase("mariadb", 3306, "default"),
     DiscoveredDatabase("postgresql", 5432, "default"),
     DiscoveredDatabase("oracle", 1521, "default")}

ExistingLists ==
    {x \in SeqsUpTo(FoundDatabases, MaxDbs) :
        \A a, b \in DOMAIN x : a # b => x[a] # x[b]}

\* the database credentials a caller can give
GivenDbCreds ==
    {DatabaseCredential("mysql", 0), DatabaseCredential("mysql", 3307),
     DatabaseCredential("postgresql", 0), DatabaseCredential("auto", 0)}

GivenDbCredLists == SeqsUpTo(GivenDbCreds, MaxDbCreds)

\* the record of discover_vm when the OS probes have returned `existing`
ProbedRecord(existing) ==
    Assign([VMWorkloads(VmName(1), "10.0.0.5", "linux") EXCEPT !.scan_status = "scanning"],
           [EmptySuite EXCEPT !.databases = existing])

\* the engines answer a second run as they answered the first
SameAnswers(dbs, env) ==
    [k \in DOMAIN dbs |-> IF k \in DOMAIN env THEN env[k] ELSE "ok"]

InitDeep ==
    /\ RunIdle
    /\ SuiteIdle
    /\ WebIdle
    /\ dep_pc = "idle"
    /\ dep_vms = <<>>
    /\ dep_edges = <<>>
    /\ deep_pc = "input"
    /\ \E creds \in GivenDbCredLists, existing \in ExistingLists :
          \E env \in [DOMAIN existing -> DeepOutcomes] :
             deep_in = [creds |-> creds, existing |-> existing, env |-> env]
    /\ deep_out = <<>>
    /\ deep_wl = <<>>

\* wl.databases = deep_probe_databases(ip, db_creds, wl.databases) and the
\* record discover_vm ends with
DeepProbe ==
    /\ deep_pc = "input"
    /\ deep_out' = <<deep_probe_databases(deep_in.creds, deep_in.existing, deep_in.env)>>
    /\ deep_wl' = Completed(ProbedRecord(deep_in.existing), deep_in.creds, deep_in.env)
    /\ deep_pc' = "probed"
    /\ UNCHANGED <<runVars, dep_pc, dep_vms, dep_edges, deep_in, suiteVars, webVars>>

\* the function applied to the list it returned, with the same credentials
DeepProbeAgain ==
    /\ deep_pc = "probed"
    /\ ~deep_out[1].raised
    /\ deep_out' = Append(deep_out,
                          deep_probe_databases(deep_in.creds, deep_out[1].results,
                                               SameAnswers(deep_out[1].results, deep_in.env)))
    /\ deep_pc' = "reprobed"
    /\ UNCHANGED <<runVars, dep_pc, dep_vms, dep_edges, deep_in, deep_wl, suiteVars, webVars>>

NextDeep == DeepProbe \/ DeepProbeAgain

SpecDeep == InitDeep /\ [][NextDeep]_vars

-----------------------------------------------------------------------------
(* _try_linux_cred as a pure function                                      *)

\* the five probes of the suite, in call order
Probes == <<"ports", "databases", "webapps", "containers", "orchestrators">>

\* how the remote commands of one probe answer: they print what is there,
\* they print nothing (non-zero status, tool not installed), or the SSH
\* connect, exec_command or read raises (authentication, transport, timeout)
CommandAnswers == {"output", "empty", "raises"}

\* _run_ssh(ip, cred, command): the command's stdout; there is no except
\* clause around connect / exec_command / read, only `finally: client.close()`
_run_ssh(answer, stdout) ==
    [raised |-> answer = "raises",
     out    |-> IF answer = "output" THEN stdout ELSE <<>>]

\* _probe_linux_ports: listening ports and established connections
_probe_linux_ports(host, answer) ==
    LET raw  == _run_ssh(answer, host.listening_ports)
        raw2 == _run_ssh(answer, host.established_connections)
    IN  [raised |-> raw.raised \/ raw2.raised,
         listening |-> raw.out, established |-> raw2.out]

\* _probe_linux_databases, PostgreSQL branch: the version commands run only
\* when port 5432 or a postgres process is in the port table, and the record
\* is appended whatever they print
_probe_linux_databases(answer, ports) ==
    IF \E k \in DOMAIN ports : ports[k].port = 5432 \/ ports[k].process = "postgres"
    THEN [raised |-> _run_ssh(answer, <<>>).raised,
          out |-> <<DiscoveredDatabase("postgresql", 5432, "default")>>]
    ELSE [raised |-> FALSE, out |-> <<>>]

\* port = 8080; for pp in ports: if "java" in pp.process.lower(): port = pp.port; break
JavaPort(ports) ==
    LET owned == {k \in DOMAIN ports : ports[k].process = "java"}
    IN  IF owned = {} THEN 8080
        ELSE ports[CHOOSE k \in owned : \A j \in owned : k <= j].port

\* _probe_linux_webapps, Java branch: `ps aux` always runs; a java line in its
\* output makes one web app on the first port a java process listens on
_probe_linux_webapps(host, answer, ports) ==
    LET processes_raw == _run_ssh(answer, host.web_apps)
    IN  [raised |-> processes_raw.raised,
         out |-> IF processes_raw.out = <<>> THEN <<>>
                 ELSE <<DiscoveredWebApp("java", processes_raw.out[1].framework,
                                         JavaPort(ports))>>]

\* _probe_linux_containers: `docker version` always runs
_probe_linux_containers(host, answer) == _run_ssh(answer, host.container_runtimes)

\* _probe_linux_orchestrators: `kubelet --version` always runs
_probe_linux_orchestrators(host, answer) == _run_ssh(answer, host.orchestrators)

\* _try_linux_cred(ip, cred): the five probes in order; the first one that
\* raises ends the call and the lists collected so far are lost
_try_linux_cred(host, answers) ==
    LET p == _probe_linux_ports(host, answers["ports"])
        d == _probe_linux_databases(answers["databases"], p.listening)
        w == _probe_linux_webapps(host, answers["webapps"], p.listening)
        c == _probe_linux_containers(host, answers["containers"])
        o == _probe_linux_orchestrators(host, answers["orchestrators"])
    IN  IF p.raised
        THEN [raised |-> TRUE, ports_collected |-> FALSE, data |-> EmptySuite]
        ELSE IF d.raised \/ w.raised \/ c.raised \/ o.raised
        THEN [raised |-> TRUE, ports_collected |-> TRUE, data |-> EmptySuite]
        ELSE [raised |-> FALSE, ports_collected |-> TRUE,
              data |-> [listening_ports |-> p.listening,
                        established_connections |-> p.established,
                        databases |-> d.out, web_apps |-> w.out,
                        container_runtimes |-> c.out, orchestrators |-> o.out]]

\* what the VM runs
Hosts == SuiteResults \cup {EmptySuite}

InitSuite ==
    /\ RunIdle
    /\ dep_pc = "idle"
    /\ dep_vms = <<>>
    /\ dep_edges = <<>>
    /\ DeepIdle
    /\ WebIdle
    /\ suite_pc = "input"
    /\ \E host \in Hosts, answers \in [Range(Probes) -> CommandAnswers] :
          suite_in = [host |-> host, answers |-> answers]
    /\ suite_out = <<>>

\* one iteration of the credential loop of discover_vm with the first
\* credential:
\*   try: ports, ... = self._try_linux_cred(ip, cred); last_err = None
\*   except Exception as cred_exc: last_err = cred_exc
TryLinuxCred ==
    /\ suite_pc = "input"
    /\ LET r == _try_linux_cred(suite_in.host, suite_in.answers)
       IN  suite_out' = [raised |-> r.raised, ports_collected |-> r.ports_collected,
                         data |-> r.data,
                         last_err |-> IF r.raised THEN CaughtErr(None, CredError(1))
                                      ELSE None]
    /\ suite_pc' = "tried"
    /\ UNCHANGED <<runVars, dep_pc, dep_vms, dep_edges, deepVars, suite_in, webVars>>

NextSuite == TryLinuxCred

SpecSuite == InitSuite /\ [][NextSuite]_vars

-----------------------------------------------------------------------------
(* web/app.py: POST /api/workloads/discover and its background thread      *)

\* what a request finds: no inventory loaded, a body without usable
\* credentials or reachable targets, or a request that can be started
RequestKinds == {"no_data", "bad_body", "startable"}

\* if _workload_discoverer and _workload_discoverer.progress.get("status") == "running"
AlreadyInProgress ==
    _workload_discoverer # 0 /\ discoverers[_workload_discoverer] = "running"

\* api_workload_discover: the checks in source order, then
\*   _workload_discoverer = GuestDiscoverer()
\*   threading.Thread(target=_run_workload_discovery, daemon=True).start()
api_workload_discover ==
    /\ Len(responses) < MaxRequests
    /\ \E kind \in RequestKinds :
         IF kind = "no_data"
         THEN /\ responses' = Append(responses, 400)
              /\ UNCHANGED <<_workload_discoverer, discoverers, threads>>
         ELSE IF AlreadyInProgress
         THEN /\ responses' = Append(responses, 409)
              /\ UNCHANGED <<_workload_discoverer, discoverers, threads>>
         ELSE IF kind = "bad_body"
         THEN /\ responses' = Append(responses, 400)
              /\ UNCHANGED <<_workload_discoverer, discoverers, threads>>
         ELSE /\ discoverers' = Append(discoverers, NewProgress.status)
              /\ _workload_discoverer' = Len(discoverers) + 1
              /\ threads' = Append(threads, [pc |-> "started", disc |-> 0])
              /\ responses' = Append(responses, 200)
    /\ UNCHANGED <<runVars, dep_pc, dep_vms, dep_edges, deepVars, suiteVars>>

\* _run_workload_discovery reads the global when it runs and enters
\* discover_all, whose first statement is self._update(status="scanning", ...)
ThreadCall(t) ==
    /\ threads[t].pc = "started"
    /\ threads' = [threads EXCEPT ![t] = [pc |-> "scanning", disc |-> _workload_discoverer]]
    /\ discoverers' = [discoverers EXCEPT ![_workload_discoverer] = "scanning"]
    /\ UNCHANGED <<runVars, dep_pc, dep_vms, dep_edges, deepVars, suiteVars,
                   _workload_discoverer, responses>>

\* discover_all: self._update(status="analyzing", ...)
ThreadAnalyze(t) ==
    /\ threads[t].pc = "scanning"
    /\ threads' = [threads EXCEPT ![t].pc = "analyzing"]
    /\ discoverers' = [discoverers EXCEPT ![threads[t].disc] = "analyzing"]
    /\ UNCHANGED <<runVars, dep_pc, dep_vms, dep_edges, deepVars, suiteVars,
                   _workload_discoverer, responses>>

\* discover_all: self._update(status="complete", progress=100, ...); return
ThreadReturn(t) ==
    /\ threads[t].pc = "analyzing"
    /\ threads' = [threads EXCEPT ![t].pc = "returned"]
    /\ discoverers' = [discoverers EXCEPT ![threads[t].disc] = "complete"]
    /\ UNCHANGED <<runVars, dep_pc, dep_vms, dep_edges, deepVars, suiteVars,
                   _workload_discoverer, responses>>

\* discover_all raises (ThreadPoolExecutor rejects max_workers <= 0):
\*   except Exception as exc:
\*       _workload_discoverer.progress.update({"status": "error", ...})
\* the handler reads the global again
ThreadRaise(t) ==
    /\ threads[t].pc = "scanning"
    /\ threads' = [threads EXCEPT ![t].pc = "failed"]
    /\ discoverers' = [discoverers EXCEPT ![_workload_discoverer] = "error"]
    /\ UNCHANGED <<runVars, dep_pc, dep_vms, dep_edges, deepVars, suiteVars,
                   _workload_discoverer, responses>>

InitWeb ==
    /\ RunIdle
    /\ dep_pc = "idle"
    /\ dep_vms = <<>>
    /\ dep_edges = <<>>
    /\ DeepIdle
    /\ SuiteIdle
    /\ WebIdle

NextWeb ==
    \/ api_workload_discover
    \/ \E t \in DOMAIN threads : ThreadCall(t)
    \/ \E t \in DOMAIN threads : ThreadAnalyze(t)
    \/ \E t \in DOMAIN threads : ThreadReturn(t)
    \/ \E t \in DOMAIN threads : ThreadRaise(t)

SpecWeb == InitWeb /\ [][NextWeb]_vars

-----------------------------------------------------------------------------
(* Properties of one discover_all run                                      *)

FinalStatus == {"complete", "error", "skipped"}

\* _scan has returned the record of target i
Scanned(i) == task[i] \in {"load_done", "store_done", "load_errors", "store_errors",
                           "eval_args", "update", "finished", "collected"}

Records == result.vm_workloads

\* the positions in the result of the records made for target i
RecordsOf(i) ==
    {k \in DOMAIN Records :
        /\ Records[k].vm_name = vm_targets[i].name
        /\ Records[k].ip_addresses = <<vm_targets[i].ip>>
        /\ Records[k].os_family = vm_targets[i].os_family}

Last(s) == s[Len(s)]

\* C1: when discover_all returns, vm_workloads holds exactly one record per
\* supplied target and nothing else, and every record's scan_status is
\* complete, error or skipped.
C1_OneFinalRecordPerTarget ==
    pc = "returned" =>
        /\ Len(Records) = Len(vm_targets)
        /\ \A i \in Targets : Cardinality(RecordsOf(i)) = 1
        /\ \A k \in DOMAIN Records : Records[k].scan_status \in FinalStatus

\* a run over two targets returned the records in the reverse of the
\* submission order, one failed and one complete
C1_Witness ==
    /\ pc = "returned"
    /\ Len(vm_targets) = 2
    /\ Records[1].vm_name = vm_targets[2].name
    /\ {Records[1].scan_status, Records[2].scan_status} = {"error", "complete"}

\* C2: when the attempts with credentials 1..k-1 failed and the attempt with
\* credential k returned, the record is complete and holds exactly the lists
\* credential k's attempt returned (its databases possibly enriched in place).
C2_FallbackReflectsSuccessfulAttempt ==
    \A i \in Targets :
        (Scanned(i) /\ probe_log[i] # <<>> /\ Last(probe_log[i]).ok) =>
            LET got == Last(probe_log[i]).data
                n   == vm_targets[i].name
            IN  /\ wl[i].scan_status = "complete"
                /\ wl[i].listening_ports = got.listening_ports
                /\ wl[i].established_connections = got.established_connections
                /\ Len(wl[i].databases) = Len(got.databases)
                /\ \A k \in DOMAIN got.databases :
                       /\ wl[i].databases[k].port = got.databases[k].port
                       /\ wl[i].databases[k].instance_name = got.databases[k].instance_name
                /\ wl[i].web_apps = SetVmName(got.web_apps, n)
                /\ wl[i].container_runtimes = SetVmName(got.container_runtimes, n)
                /\ wl[i].orchestrators = SetVmName(got.orchestrators, n)

\* C3: with a non-empty credential list, when the suite failed with every
\* credential the record's status is error and scan_error is the message of
\* the failure raised with the last credential of the list.
C3_AllFailedKeepsLastFailure ==
    \A i \in Targets :
        LET creds == CredsFor(vm_targets[i].os_family)
        IN  (/\ Scanned(i)
             /\ creds # <<>>
             /\ Len(probe_log[i]) = Len(creds)
             /\ \A k \in DOMAIN probe_log[i] : ~probe_log[i][k].ok) =>
                /\ wl[i].scan_status = "error"
                /\ wl[i].scan_error = CredError(Len(creds))

\* a VM with two credentials whose suite failed with both
C3_Witness ==
    \E i \in Targets :
        /\ Scanned(i)
        /\ Len(CredsFor(vm_targets[i].os_family)) = 2
        /\ Len(probe_log[i]) = 2
        /\ ~probe_log[i][1].ok /\ ~probe_log[i][2].ok
        /\ wl[i].scan_error = CredError(2)

NoCredentials(i) == CredsFor(vm_targets[i].os_family) = <<>>

\* C4: a VM whose OS family has no credentials, or is neither linux nor
\* windows, gets status skipped with a non-empty reason, no probe suite and no
\* direct database probe is run for it, and the returned result counts it in
\* skipped_count and not in error_count.
C4_NoCredentialsMeansSkipped ==
    /\ \A i \in Targets :
          NoCredentials(i) =>
              /\ probe_log[i] = <<>>
              /\ deep_calls[i] = 0
              /\ wl[i].scan_status \in {"pending", "skipped"}
              /\ Scanned(i) => (wl[i].scan_status = "skipped" /\ wl[i].scan_error # "")
    /\ pc = "returned" =>
          /\ result.skipped_count = Cardinality({i \in Targets : NoCredentials(i)})
          /\ result.error_count =
                Cardinality({i \in Targets : ~NoCredentials(i) /\ wl[i].scan_status = "error"})

\* a returned run with one VM of an unsupported family, skipped, next to a
\* VM whose scan failed
C4_Witness ==
    /\ pc = "returned"
    /\ \E i, j \in Targets :
          /\ vm_targets[i].os_family = "solaris"
          /\ wl[i].scan_status = "skipped"
          /\ wl[j].scan_status = "error"
    /\ result.skipped_count = 1
    /\ result.error_count = 1

\* C5: in every record, while it is built and in the result, scan_status =
\* complete implies that scan_error is empty.
C5_CompleteHasNoError ==
    /\ \A i \in Targets : wl[i].scan_status = "complete" => wl[i].scan_error = ""
    /\ \A k \in DOMAIN Records :
          Records[k].scan_status = "complete" => Records[k].scan_error = ""

\* a record in the result that is complete after its first credential failed
C5_Witness ==
    \E i \in Targets :
        /\ task[i] = "collected"
        /\ Len(probe_log[i]) = 2
        /\ ~probe_log[i][1].ok
        /\ wl[i].scan_status = "complete"
        /\ \E k \in DOMAIN Records : Records[k] = wl[i]

\* what the result would hold had the futures completed in submission order
SubmissionOrder == [i \in Targets |-> wl[i]]

\* C6: for fixed probe outcomes the result does not depend on the order in
\* which the workers complete: it holds one record per target, each with the
\* content its worker produced, and the set of dependency edges is the one
\* obtained when the records are collected in submission order.
C6_ResultIndependentOfCompletionOrder ==
    pc = "returned" =>
        /\ Len(Records) = Len(vm_targets)
        /\ \A i \in Targets : \E k \in DOMAIN Records : Records[k] = wl[i]
        /\ Range(result.dependencies) = Range(_build_dependencies(SubmissionOrder))

\* the records discover_vm can return for target i given only its own
\* target, the credential lists and the outcomes of its own attempts
OwnRecords(i) ==
    LET t       == vm_targets[i]
        fresh   == VMWorkloads(t.name, t.ip, t.os_family)
        started == [fresh EXCEPT !.scan_status = "scanning"]
    IN  IF NoCredentials(i) THEN {Skipped(fresh)}
        ELSE IF probe_log[i] = <<>> THEN {}
        ELSE IF Last(probe_log[i]).ok
        THEN {Completed(Assign(started, Last(probe_log[i]).data), db_creds, env) :
                 env \in DeepEnvs(Last(probe_log[i]).data.databases)}
        ELSE {Failed(started, CredError(Len(probe_log[i])))}

\* C7: the record of a VM is determined by its own target, the credentials
\* and the outcomes of its own probes, whatever happens to the other VMs of
\* the run; it is put into the result as its worker returned it, and the run
\* returns only after every target's record has been collected.
C7_RecordDependsOnOwnScanOnly ==
    /\ \A i \in Targets :
          /\ Scanned(i) => wl[i] \in OwnRecords(i)
          /\ task[i] = "collected" => \E k \in DOMAIN Records : Records[k] = wl[i]
    /\ pc = "returned" => \A i \in Targets : task[i] = "collected"

\* a returned run in which the first VM's scan failed and the second VM's
\* record is complete and in the result
C7_Witness ==
    /\ pc = "returned"
    /\ Len(vm_targets) = 2
    /\ wl[1].scan_status = "error"
    /\ wl[2].scan_status = "complete"
    /\ wl[2].established_connections # <<>>
    /\ \E k \in DOMAIN Records : Records[k] = wl[2]

\* Every pool thread keeps running its task and the main thread keeps
\* running: the operating system schedules the threads, and every remote
\* command returns or raises.
FairSpec == Spec /\ WF_vars(Next)

-----------------------------------------------------------------------------
(* Properties of _build_dependencies                                       *)

\* the name of the VM an address belongs to: the last record of the list that
\* carries it, NoVM when no record does
OwnerOf(ip) ==
    LET holders == {r \in DOMAIN dep_vms : ip \in Range(dep_vms[r].ip_addresses)}
    IN  IF holders = {} THEN NoVM
        ELSE dep_vms[CHOOSE r \in holders : \A q \in holders : q <= r].vm_name

\* the connections of record r that reach port `port` of another VM `target`
ConnsTo(r, target, port) ==
    {c \in DOMAIN dep_vms[r].established_connections :
        /\ OwnerOf(dep_vms[r].established_connections[c].remote_ip) = target
        /\ dep_vms[r].established_connections[c].remote_port = port}

EdgesFor(source, target, port) ==
    {e \in DOMAIN dep_edges :
        /\ dep_edges[e].source_vm = source
        /\ dep_edges[e].target_vm = target
        /\ dep_edges[e].target_port = port}

\* C9: the returned list holds at most one edge per (source VM, target VM,
\* target port); for a source VM with one or more connections to the same
\* port of another VM exactly one edge is emitted, and its source label is
\* the one of the first such connection of the source VM's connection list.
C9_OneEdgePerSourceTargetPort ==
    dep_pc = "built" =>
        /\ \A a, b \in DOMAIN dep_edges :
              (/\ dep_edges[a].source_vm = dep_edges[b].source_vm
               /\ dep_edges[a].target_vm = dep_edges[b].target_vm
               /\ dep_edges[a].target_port = dep_edges[b].target_port) => a = b
        /\ \A r \in DOMAIN dep_vms : \A c \in DOMAIN dep_vms[r].established_connections :
              LET conn   == dep_vms[r].established_connections[c]
                  source == dep_vms[r].vm_name
                  target == OwnerOf(conn.remote_ip)
                  same   == ConnsTo(r, target, conn.remote_port)
                  first  == CHOOSE k \in same : \A q \in same : k <= q
              IN  (target # NoVM /\ target # source) =>
                     /\ Cardinality(EdgesFor(source, target, conn.remote_port)) = 1
                     /\ \A e \in EdgesFor(source, target, conn.remote_port) :
                            dep_edges[e].source_workload =
                                SourceLabel(dep_vms[r].established_connections[first])

\* the second VM holds two connections to the PostgreSQL port of the first,
\* the first one without a process name: one edge, labelled by the pid
C9_Witness ==
    /\ dep_pc = "built"
    /\ Len(dep_vms) = 2
    /\ dep_vms[1].ip_addresses = <<"10.0.0.5">>
    /\ dep_vms[2].ip_addresses = <<"10.0.0.6">>
    /\ dep_vms[2].established_connections =
          <<EstablishedConnection("10.0.0.5", 5432, "", 999),
            EstablishedConnection("10.0.0.5", 5432, "java", 999)>>
    /\ dep_vms[1].established_connections = <<>>
    /\ dep_edges = <<WorkloadDependency("vm2", "pid-999", "vm1", "postgresql:default", 5432)>>

\* C10: a connection whose remote address is one of the observing VM's own
\* addresses, or the address of no VM of the run, produces no edge: every
\* edge is backed by a connection of its source VM to an address that is not
\* the source's own and belongs to the target VM, and no edge has its source
\* VM as its target.
C10_NoEdgeFromOwnOrUnknownAddress ==
    dep_pc = "built" =>
        \A e \in DOMAIN dep_edges :
            /\ dep_edges[e].source_vm # dep_edges[e].target_vm
            /\ \E r, t \in DOMAIN dep_vms :
                  /\ dep_vms[r].vm_name = dep_edges[e].source_vm
                  /\ dep_vms[t].vm_name = dep_edges[e].target_vm
                  /\ \E c \in DOMAIN dep_vms[r].established_connections :
                        LET conn == dep_vms[r].established_connections[c]
                        IN  /\ conn.remote_port = dep_edges[e].target_port
                            /\ conn.remote_ip \notin Range(dep_vms[r].ip_addresses)
                            /\ conn.remote_ip \in Range(dep_vms[t].ip_addresses)

\* the (source VM, target VM, target port) triples of the returned edges
EdgeTriples ==
    {<<dep_edges[e].source_vm, dep_edges[e].target_vm, dep_edges[e].target_port>> :
        e \in DOMAIN dep_edges}

\* the triples (v, w, p) such that VM v holds an established connection to
\* port p at an address of a different VM w of the list
ObservedTriples ==
    UNION {
        {<<dep_vms[r].vm_name, dep_vms[t].vm_name,
           dep_vms[r].established_connections[c].remote_port>> :
            c \in {k \in DOMAIN dep_vms[r].established_connections :
                     dep_vms[r].established_connections[k].remote_ip
                         \in Range(dep_vms[t].ip_addresses)}} :
        <<r, t>> \in {p \in (DOMAIN dep_vms) \X (DOMAIN dep_vms) :
                         dep_vms[p[1]].vm_name # dep_vms[p[2]].vm_name}}

\* C11: the triples of the returned edges are exactly the triples (v, w, p)
\* for which VM v of the list holds an established connection to port p at
\* an address belonging to a different VM w of the list.
C11_EdgesAreExactlyObservedConnections ==
    dep_pc = "built" => EdgeTriples = ObservedTriples

-----------------------------------------------------------------------------
(* Properties of the worker pool and of the shared state                   *)

\* C12: at no time are more than max_workers per-VM scans in progress.
C12_AtMostMaxWorkersScans ==
    Cardinality({i \in Targets : task[i] \in InScan}) <= max_workers

\* with a pool of one thread the first VM is being probed while the second
\* still waits in the pool's queue
C12_Witness ==
    /\ max_workers = 1
    /\ Len(vm_targets) = 2
    /\ task[1] = "trying"
    /\ task[2] = "queued"

\* the tasks whose `done += 1` has been stored
Counted == {i \in Targets : task[i] \in {"load_errors", "store_errors", "eval_args",
                                        "update", "finished", "collected"}}

\* C13: every worker's read-modify-write of shared state is performed inside
\* the lock's critical section: between a worker's load of a counter and its
\* store no other worker writes that counter, so no increment is lost and
\* `done` is the number of scans that have counted themselves.
C13_SharedCountersUpdatedUnderLock ==
    /\ \A i \in Targets : task[i] = "store_done" => r_done[i] = done
    /\ \A i \in Targets : task[i] = "store_errors" => r_errors[i] = errors
    /\ done = Cardinality(Counted)

\* the number of records of the result with status s
CountStatus(s) == Cardinality({k \in DOMAIN Records : Records[k].scan_status = s})

\* the summed length of one collection over the first k records of the result
RECURSIVE SumLens(_, _)
SumLens(field, k) ==
    IF k = 0 THEN 0 ELSE Len(Records[k][field]) + SumLens(field, k - 1)

\* C14: in the returned result the three counters are the numbers of records
\* with status complete, error and skipped, they add up to the number of
\* records, and the four totals are the summed lengths of the per-VM
\* collections.
C14_CountersMatchRecords ==
    pc = "returned" =>
        /\ result.scanned_count = CountStatus("complete")
        /\ result.error_count = CountStatus("error")
        /\ result.skipped_count = CountStatus("skipped")
        /\ result.scanned_count + result.error_count + result.skipped_count = Len(Records)
        /\ result.total_databases = SumLens("databases", Len(Records))
        /\ result.total_webapps = SumLens("web_apps", Len(Records))
        /\ result.total_containers = SumLens("container_runtimes", Len(Records))
        /\ result.total_orchestrators = SumLens("orchestrators", Len(Records))

\* a returned run over a database VM that was scanned and a VM that was
\* skipped
C14_Witness ==
    /\ pc = "returned"
    /\ Len(Records) = 2
    /\ result.scanned_count = 1
    /\ result.skipped_count = 1
    /\ result.total_databases = 1
    /\ result.total_webapps = 0

-----------------------------------------------------------------------------
(* Properties of deep_probe_databases                                      *)

EnginePorts(dbs) == [k \in DOMAIN dbs |-> <<dbs[k].engine, dbs[k].port>>]

\* C15: deep_probe_databases returns every database of the existing list
\* once and in order, followed only by newly discovered records that
\* duplicate none of them; applied again to its own output with the same
\* credentials and answers it returns a list of the same length with the
\* same (engine, port) pairs.
C15_DeepProbeKeepsAndRepeats ==
    /\ (deep_pc \in {"probed", "reprobed"} /\ ~deep_out[1].raised) =>
          LET existing == deep_in.existing
              results  == deep_out[1].results
          IN  /\ Len(results) >= Len(existing)
              /\ \A k \in DOMAIN existing :
                    /\ results[k].port = existing[k].port
                    /\ results[k].instance_name \in {existing[k].instance_name, "default"}
              /\ \A k \in DOMAIN results :
                    k > Len(existing) =>
                        /\ results[k].discovery_method = "direct_connect"
                        /\ \A j \in DOMAIN existing :
                              <<results[k].engine, results[k].port>>
                                  # <<results[j].engine, results[j].port>>
    /\ deep_pc = "reprobed" =>
          /\ ~deep_out[2].raised
          /\ EnginePorts(deep_out[2].results) = EnginePorts(deep_out[1].results)

\* C16: when the client library of an engine is missing, the direct probe of
\* a database of that engine does not raise: the database stays in the VM's
\* list with its connection error set, and the scan ends with status
\* complete.
C16_MissingDriverIsRecordedNotRaised ==
    deep_pc \in {"probed", "reprobed"} =>
        \A k \in DOMAIN deep_in.existing :
            (/\ Pass1Cred(deep_in.existing[k], deep_in.creds) # 0
             /\ deep_in.env[k] = "no_driver") =>
                /\ ~deep_out[1].raised
                /\ k \in DOMAIN deep_wl.databases
                /\ deep_wl.databases[k].port = deep_in.existing[k].port
                /\ deep_wl.databases[k].connection_error # ""
                /\ deep_wl.scan_status = "complete"

-----------------------------------------------------------------------------
(* Properties of a run in which a remote command hangs                     *)

\* C17: when a remote command of one VM never returns, only that VM's task
\* stalls: the scan of every other target of the run eventually starts and
\* finishes, whatever the concurrency bound.
C17_StallDelaysOnlyOwnTask ==
    <>(\A i \in Targets : task[i] \in {"stalled", "finished", "collected"})

-----------------------------------------------------------------------------
(* Properties of the order of the steps                                    *)

\* the attempts made so far for target i all failed
AllFailed(i) == \A k \in DOMAIN probe_log[i] : ~probe_log[i][k].ok

\* C18: for one VM the credentials are attempted in list order and one at a
\* time: the attempt number n is made with credential n, only by the VM's
\* own task while it is in the credential loop, only after every earlier
\* attempt has failed, and no attempt follows a successful one.
C18_CredentialsTriedInOrder ==
    /\ [](\A i \in Targets :
            /\ Len(probe_log[i]) <= Len(CredsFor(vm_targets[i].os_family))
            /\ \A k \in DOMAIN probe_log[i] : probe_log[i][k].ok => k = Len(probe_log[i])
            /\ task[i] = "trying" => (AllFailed(i) /\ cred_idx[i] = Len(probe_log[i]) + 1))
    /\ [][\A i \in Targets :
            probe_log'[i] # probe_log[i] =>
                /\ task[i] = "trying"
                /\ AllFailed(i)
                /\ cred_idx[i] = Len(probe_log[i]) + 1
                /\ \E entry \in {Logged(out) : out \in AttemptOutcomes} :
                      probe_log'[i] = Append(probe_log[i], entry)]_vars

\* a VM whose first credential failed and whose second credential succeeded
C18_Witness ==
    \E i \in Targets :
        /\ Scanned(i)
        /\ cred_idx[i] = 2
        /\ Len(probe_log[i]) = 2
        /\ ~probe_log[i][1].ok
        /\ probe_log[i][2].ok

\* the topology build has started
Analyzing == pc \in {"totals", "returned"}

\* C19: the topology build (status "analyzing", the call of
\* _build_dependencies) starts only after every dispatched task has finished
\* and its record has been collected; no worker runs while or after it
\* executes, and it is invoked exactly once per run.
C19_TopologyBuiltOnceAfterJoin ==
    /\ [](/\ Analyzing => \A i \in Targets : task[i] = "collected"
          /\ progress.status \in {"analyzing", "complete"} => Analyzing
          /\ ~Analyzing => result.dependencies = <<>>)
    /\ [][/\ (~Analyzing /\ Analyzing') =>
                /\ \A i \in Targets : task[i] = "collected"
                /\ Len(result.vm_workloads) = Len(vm_targets)
                /\ progress'.status = "analyzing"
                /\ result'.dependencies = _build_dependencies(result.vm_workloads)
          /\ Analyzing => (Analyzing' /\ result'.dependencies = result.dependencies
                                     /\ task' = task)]_vars

\* the topology has been built from two collected records and holds an edge
C19_Witness ==
    /\ pc = "totals"
    /\ progress.status = "analyzing"
    /\ Len(vm_targets) = 2
    /\ \A i \in Targets : task[i] = "collected"
    /\ result.dependencies # <<>>

-----------------------------------------------------------------------------
(* Properties of the labels of the edges                                   *)

\* the positions of the entries of a list that are on port p
OnPort(xs, p) == {k \in DOMAIN xs : xs[k].port = p}

\* the label the claim gives to port p of VM t: database, else web app,
\* else the listening process, else "port-p"
ExpectedTargetLabel(t, p) ==
    LET holders == {r \in DOMAIN dep_vms : dep_vms[r].vm_name = t}
        rec     == dep_vms[CHOOSE r \in holders : TRUE]
        dbs     == OnPort(rec.databases, p)
        was     == OnPort(rec.web_apps, p)
        lps     == {k \in OnPort(rec.listening_ports, p) : rec.listening_ports[k].process # ""}
    IN  IF dbs # {}
        THEN LET db == rec.databases[CHOOSE k \in dbs : TRUE]
             IN  db.engine \o ":" \o db.instance_name
        ELSE IF was # {}
        THEN LET wa == rec.web_apps[CHOOSE k \in was : TRUE]
             IN  wa.runtime \o ":" \o wa.framework
        ELSE IF lps # {}
        THEN rec.listening_ports[CHOOSE k \in lps : \A q \in lps : k <= q].process
        ELSE "port-" \o ToString(p)

\* C20: the target label of an edge to port p of VM t is the label of a
\* database of t on port p if there is one, otherwise of a web app of t on
\* port p, otherwise the process of t's listening port p, otherwise
\* "port-p"; a database is never relabelled by a web app or a listening
\* port on the same port.
C20_TargetLabelByPriority ==
    dep_pc = "built" =>
        \A e \in DOMAIN dep_edges :
            dep_edges[e].target_workload =
                ExpectedTargetLabel(dep_edges[e].target_vm, dep_edges[e].target_port)

-----------------------------------------------------------------------------
(* Properties of the two passes of deep_probe_databases                    *)

\* the credentials pass 1 would consume if a credential taken by an earlier
\* database were no longer offered to a later one
RECURSIVE ConsumedInOrder(_, _, _, _)
ConsumedInOrder(existing, creds, k, used) ==
    IF k > Len(existing) THEN used
    ELSE LET free == {ci \in DOMAIN creds \ used : CredMatches(creds[ci], existing[k])}
         IN  ConsumedInOrder(existing, creds, k + 1,
                 IF existing[k].engine \in _DEEP_PROBE_MAP /\ free # {}
                 THEN used \cup {CHOOSE ci \in free : \A cj \in free : ci <= cj}
                 ELSE used)

\* the positions of the existing databases that pass 1 has probed directly
EnrichedPositions(out) ==
    {k \in DOMAIN out.enriched : out.enriched[k].discovery_method = "direct_connect"}

\* C21: pass 1 gives each existing database the first matching credential
\* that no earlier database has consumed, so the consumed credentials are
\* those of the in-order assignment and no credential enriches two databases.
C21_Pass1ConsumesEachCredentialOnce ==
    deep_pc # "input" =>
        /\ deep_out[1].used = ConsumedInOrder(deep_in.existing, deep_in.creds, 1, {})
        /\ Cardinality(EnrichedPositions(deep_out[1])) <= Cardinality(deep_out[1].used)

\* the records pass 2 has appended behind those of the existing databases
AddedByPass2(out) ==
    {out.results[k] : k \in (DOMAIN out.results) \ (DOMAIN out.enriched)}

\* C22: pass 2 never raises; each record it adds comes from a successful
\* direct connection (no connection error, discovery method direct-connect).
C22_Pass2NeverRaises ==
    deep_pc # "input" =>
        /\ ~deep_out[1].raised
        /\ \A db \in AddedByPass2(deep_out[1]) :
              db.connection_error = "" /\ db.discovery_method = "direct_connect"

-----------------------------------------------------------------------------
(* Properties of the OS probe suite                                        *)

\* C23: once the port-table collection has succeeded, a later command that
\* fails (prints nothing, times out or raises) means "feature absent": the
\* suite returns a result and the credential attempt is not counted as failed.
C23_LaterCommandFailureIsFeatureAbsent ==
    (suite_pc = "tried" /\ suite_in.answers["ports"] # "raises") =>
        /\ ~suite_out.raised
        /\ suite_out.last_err = None

-----------------------------------------------------------------------------
(* Properties of the records' lifecycle                                    *)

\* the record of VM i is written by a step of its own scan only
OwnWorkerWrites ==
    \A i \in Targets : wl'[i] # wl[i] => task[i] \in {"queued", "trying"}

\* the records of the result list stay as they were appended
PublishedRecordsKept ==
    /\ Len(result'.vm_workloads) >= Len(result.vm_workloads)
    /\ \A k \in DOMAIN result.vm_workloads :
          result'.vm_workloads[k] = result.vm_workloads[k]

\* C24: a VMWorkloads record is written only by the worker scanning that VM
\* and never after it has been appended to the result list; the topology
\* build and the totals leave every field of every record unchanged.
C24_RecordsReadOnlyOncePublished ==
    [][OwnWorkerWrites /\ PublishedRecordsKept]_vars

\* a run has returned with an edge built from records that carry connections
C24_Witness ==
    /\ pc = "returned"
    /\ result.dependencies # <<>>
    /\ \E k \in DOMAIN result.vm_workloads :
          result.vm_workloads[k].established_connections # <<>>

-----------------------------------------------------------------------------
(* Properties of the progress record                                       *)

\* C25: when discover_all has returned, the progress record shows status
\* "complete" and 100 percent, its scanned count is the number of targets
\* and its error count is the number of records with status "error".
C25_FinalProgressMatchesRun ==
    pc = "returned" =>
        /\ progress.status = "complete"
        /\ progress.progress = 100
        /\ progress.scanned = Len(vm_targets)
        /\ progress.errors = CountStatus("error")

\* C26: as seen by an observer polling at any time, the percentage and the
\* scanned count of the progress record never decrease; the percentage stays
\* within 0..100, is at most 90 while the status is "scanning", and is 100
\* only together with status "complete".
C26_ProgressNeverDecreases ==
    /\ [](/\ progress.progress \in 0..100
          /\ (progress.status = "scanning" => progress.progress <= 90)
          /\ (progress.progress = 100 <=> progress.status = "complete"))
    /\ [][/\ progress'.progress >= progress.progress
          /\ progress'.scanned >= progress.scanned]_vars

-----------------------------------------------------------------------------
(* Properties of scan_status                                               *)

\* the moves of scan_status that discover_vm makes
StatusMoves ==
    {<<"pending", "scanning">>, <<"scanning", "complete">>, <<"scanning", "error">>,
     <<"pending", "skipped">>}

\* C27: scan_status only moves pending -> scanning -> complete,
\* pending -> scanning -> error or pending -> skipped; "scanning" is entered
\* only with at least one credential for a supported OS family, and a status
\* of complete, error or skipped never changes again.
C27_ScanStatusLifecycle ==
    /\ [](\A i \in Targets :
            /\ wl[i].scan_status \in {"pending", "scanning", "complete", "error", "skipped"}
            /\ (wl[i].scan_status \in {"scanning", "complete", "error"} =>
                   /\ wl[i].os_family \in {"linux", "windows"}
                   /\ CredsFor(wl[i].os_family) # <<>>))
    /\ [][\A i \in Targets :
            wl'[i].scan_status # wl[i].scan_status =>
                <<wl[i].scan_status, wl'[i].scan_status>> \in StatusMoves]_vars

\* one VM has ended complete after a failed first attempt, another one has
\* been skipped
C27_Witness ==
    \E i, j \in Targets :
        /\ wl[i].scan_status = "complete"
        /\ Len(probe_log[i]) = 2
        /\ wl[j].scan_status = "skipped"
        /\ task[i] = "collected" /\ task[j] = "collected"

\* the six collections of a record are empty
NothingCollected(w) ==
    /\ w.listening_ports = <<>>
    /\ w.established_connections = <<>>
    /\ w.databases = <<>>
    /\ w.web_apps = <<>>
    /\ w.container_runtimes = <<>>
    /\ w.orchestrators = <<>>

\* C28: a record whose final status is error or skipped has empty listening
\* ports, connections, databases, web apps, container runtimes and
\* orchestrators, so totals and edges come from complete records only.
C28_FailedRecordsAreEmpty ==
    \A k \in DOMAIN result.vm_workloads :
        result.vm_workloads[k].scan_status \in {"error", "skipped"} =>
            NothingCollected(result.vm_workloads[k])

-----------------------------------------------------------------------------
(* Properties of the list deep_probe_databases returns                     *)

\* no two positions of dbs hold the same (engine, port)
DistinctEnginePorts(dbs) ==
    \A a, b \in DOMAIN dbs :
        (dbs[a].engine = dbs[b].engine /\ dbs[a].port = dbs[b].port) => a = b

-----------------------------------------------------------------------------
(* Properties of the web endpoint                                          *)

\* the background threads whose discover_all run has not finished
ActiveRuns == {t \in DOMAIN threads : threads[t].pc \in {"started", "scanning", "analyzing"}}

\* C30: POST /api/workloads/discover answers 409 whenever a run started
\* earlier has not finished, so at most one discover_all run is active at any
\* time and the discoverer behind /api/workloads/status is never replaced
\* while its run is in progress.
C30_OneRunAtATime ==
    /\ [](Cardinality(ActiveRuns) <= 1)
    /\ [][/\ (_workload_discoverer' # _workload_discoverer => ActiveRuns = {})
          /\ (ActiveRuns # {} /\ responses' # responses =>
                 responses'[Len(responses')] \in {400, 409})]_vars

====
